---- MODULE Spec2Model ----
(***************************************************************************)
(* Model of the recipe recommendation engine of recipe-finder              *)
(* (utils/recommendationEngine.ts: RecipeRecommendationEngine).            *)
(*                                                                         *)
(* Strings are sequences of one-character strings, so that toLowerCase is  *)
(* computed character by character.  A JavaScript Set is an insertion-     *)
(* ordered sequence without duplicates.  A score is an exact rational      *)
(* held as an integer number of 1/Scale units (0.4 is 4 * Scale / 10):     *)
(* calculateSimilarity gives the value of the returned number without the  *)
(* rounding of IEEE doubles.  calculateSimilarityDouble gives the double   *)
(* itself, as that value together with the accumulated rounding error,     *)
(* and aboveThresholdDouble the test score > 0.1 on it.  On the recipes of *)
(* Catalog the doubles compare with 0.1 and with each other as the exact   *)
(* values do; on OverlapCandidates they do not (C28).                      *)
(***************************************************************************)
EXTENDS Integers, Sequences, FiniteSets, TLC

VARIABLES
    targetRecipe,        \* getRecommendations: the targetRecipe argument
    allRecipes,          \* getRecommendations: the allRecipes argument (an array)
    maxRecommendations,  \* getRecommendations: <<n>> for the limit argument n, <<>> when omitted
    returned,            \* the array getRecommendations returned
    phase,               \* "called" | "returned" | "pair" | "scored" | "explained" |
                         \* "tested" | "requested" | "responded" | "mounted"
    pairTarget,          \* calculateSimilarity / generateReasons: the targetRecipe argument
    pairCandidate,       \* calculateSimilarity / generateReasons: the candidateRecipe argument
    similarity,          \* the number calculateSimilarity returned
    reasons,             \* the array generateReasons returned
    recipesTable,        \* server: the rows of the recipes table
    reqParamsId,         \* server: req.params.id
    reqQueryLimit,       \* server: <<s>> for the query parameter limit=s, <<>> when absent
    processedTarget,     \* server: the target row after processRecipe
    serverCandidates,    \* server: candidateRecipes, the other rows after processRecipe
    resStatus,           \* server: the status of the response, 0 before it is sent
    resRecommendations,  \* server: the recommendations of the response body
    currentRecipe,       \* RecipeRecommendations: the id of the currentRecipe prop
    recommendations,     \* RecipeRecommendations: state, the list displayed
    loading,             \* RecipeRecommendations: state
    error,               \* RecipeRecommendations: state, <<>> for null, <<m>> for the message m
    effectPending,       \* RecipeRecommendations: the effect of the last render has not run yet
    requests,            \* the calls of api.getRecipeRecommendations, in the order issued
    candidateScore,      \* getRecommendations, forEach body: const score, a double
    pushed               \* getRecommendations, forEach body: the candidate was pushed

serverVars == <<recipesTable, reqParamsId, reqQueryLimit, processedTarget,
                serverCandidates, resStatus, resRecommendations>>

uiVars == <<currentRecipe, recommendations, loading, error, effectPending, requests>>

doubleVars == <<candidateScore, pushed>>

vars == <<targetRecipe, allRecipes, maxRecommendations, returned, phase,
          pairTarget, pairCandidate, similarity, reasons, serverVars, uiVars,
          doubleVars>>

(***************************************************************************)
(* Bounds of the model.                                                    *)
(***************************************************************************)
MaxPool == 3     \* longest allRecipes array
MaxLimit == 3    \* the limit argument ranges over -MaxLimit .. MaxLimit, or is omitted
MaxChanges == 2  \* changes of the currentRecipe prop while the component is mounted

(***************************************************************************)
(* Strings.                                                                *)
(***************************************************************************)
UpperCase == <<"A","B","C","D","E","F","G","H","I","J","K","L","M",
               "N","O","P","Q","R","S","T","U","V","W","X","Y","Z">>
LowerCase == <<"a","b","c","d","e","f","g","h","i","j","k","l","m",
               "n","o","p","q","r","s","t","u","v","w","x","y","z">>

\* the lower-case letter of each upper-case letter
LowerOf ==
    [c \in {UpperCase[i] : i \in 1..Len(UpperCase)} |->
        LowerCase[CHOOSE i \in 1..Len(UpperCase) : UpperCase[i] = c]]

UpperLetters == DOMAIN LowerOf

toLowerCaseChar(c) == IF c \in UpperLetters THEN LowerOf[c] ELSE c

\* Mutant: only the first letter is lower-cased.
toLowerCaseFirstOnly(s) == [i \in 1..Len(s) |-> IF i = 1 THEN toLowerCaseChar(s[i]) ELSE s[i]]

\* String.prototype.toLowerCase
toLowerCase(s) == [i \in 1..Len(s) |-> toLowerCaseChar(s[i])]

\* Array.prototype.join on an array of strings
RECURSIVE join(_, _)
join(arr, sep) ==
    IF Len(arr) = 0 THEN <<>>
    ELSE IF Len(arr) = 1 THEN arr[1]
    ELSE join(SubSeq(arr, 1, Len(arr) - 1), sep) \o sep \o arr[Len(arr)]

(***************************************************************************)
(* Arrays and Sets of the JavaScript runtime.                              *)
(***************************************************************************)
\* Set.prototype.has
has(set, x) == \E i \in 1..Len(set) : set[i] = x

\* Mutant: an array stands in for the Set, duplicates are kept.
NewSetKeepDuplicates(arr) == arr

\* new Set(iterable): keeps the first occurrence of each value, in order
RECURSIVE NewSet(_)
NewSet(arr) ==
    IF Len(arr) = 0 THEN <<>>
    ELSE LET init == NewSet(SubSeq(arr, 1, Len(arr) - 1))
             x == arr[Len(arr)]
         IN  IF has(init, x) THEN init ELSE Append(init, x)

\* Array.prototype.slice(start, end) for integer arguments
sliceIndex(k, len) ==
    IF k < 0 THEN (IF len + k > 0 THEN len + k ELSE 0)
    ELSE (IF k < len THEN k ELSE len)

\* Mutant: the end index is taken as inclusive.
sliceEndInclusive(arr, start, end) ==
    LET from == sliceIndex(start, Len(arr))
        to == sliceIndex(end + 1, Len(arr))
    IN  IF to > from THEN SubSeq(arr, from + 1, to) ELSE <<>>

slice(arr, start, end) ==
    LET from == sliceIndex(start, Len(arr))
        to == sliceIndex(end, Len(arr))
    IN  IF to > from THEN SubSeq(arr, from + 1, to) ELSE <<>>

(***************************************************************************)
(* Scores: exact arithmetic in units of 1/Scale.  Scale / 10 is a multiple *)
(* of every set size up to 8, so every Jaccard ratio times its weight is   *)
(* an integer.                                                             *)
(***************************************************************************)
Scale == 10 * 840
CuisineWeight == (4 * Scale) \div 10       \* 0.4
\* Mutant: the category factor adds the cuisine weight.
CategoryWeightOfCuisine == (4 * Scale) \div 10
CategoryWeight == (3 * Scale) \div 10      \* 0.3
TagWeight == (2 * Scale) \div 10           \* 0.2
IngredientWeight == (1 * Scale) \div 10    \* 0.1
Threshold == (1 * Scale) \div 10           \* 0.1
DefaultMaxRecommendations == 6

\* Mutant: the ratio is smoothed, (intersection + 1) / (union + 1).
ratioTimesSmoothed(intersectionSize, unionSize, weight) ==
    ((intersectionSize + 1) * weight) \div (unionSize + 1)

\* (intersectionSize / unionSize) * weight
ratioTimes(intersectionSize, unionSize, weight) ==
    (intersectionSize * weight) \div unionSize

(***************************************************************************)
(* RecipeRecommendationEngine.calculateSimilarity                          *)
(***************************************************************************)
\* Mutant: cuisines and categories are compared without regard to letter case.
equalsIgnoringCase(a, b) == toLowerCase(a) = toLowerCase(b)

\* a === b on strings
strictEquals(a, b) == a = b

\* Mutant: the entries are compared as written, without lower-casing.
mapUnchanged(arr) == arr

\* recipe.tags.map((tag) => tag.toLowerCase()), likewise for ingredients
mapToLowerCase(arr) == [i \in 1..Len(arr) |-> toLowerCase(arr[i])]

\* [...targetSet].filter((x) => candidateSet.has(x))
filterHas(targetSet, candidateSet) ==
    LET inCandidate(x) == has(candidateSet, x)
    IN  SelectSeq(targetSet, inCandidate)

\* Mutant: the union leaves out the candidate's entries.
unionOfTargetOnly(targetSet, candidateSet) == NewSet(targetSet)

\* new Set([...targetSet, ...candidateSet])
unionOf(targetSet, candidateSet) == NewSet(targetSet \o candidateSet)

calculateSimilarity(target, candidate) ==
    LET score0 == 0
        score1 == IF strictEquals(target.cuisine, candidate.cuisine)
                  THEN score0 + CuisineWeight ELSE score0
        score2 == IF strictEquals(target.category, candidate.category)
                  THEN score1 + CategoryWeight ELSE score1
        targetTags == NewSet(mapToLowerCase(target.tags))
        candidateTags == NewSet(mapToLowerCase(candidate.tags))
        tagIntersection == NewSet(filterHas(targetTags, candidateTags))
        tagUnion == unionOf(targetTags, candidateTags)
        score3 == IF Len(tagUnion) > 0
                  THEN score2 + ratioTimes(Len(tagIntersection), Len(tagUnion), TagWeight)
                  ELSE score2
        targetIngredients == NewSet(mapToLowerCase(target.ingredients))
        candidateIngredients == NewSet(mapToLowerCase(candidate.ingredients))
        ingredientIntersection == NewSet(filterHas(targetIngredients, candidateIngredients))
        ingredientUnion == unionOf(targetIngredients, candidateIngredients)
        score4 == IF Len(ingredientUnion) > 0
                  THEN score3 + ratioTimes(Len(ingredientIntersection),
                                           Len(ingredientUnion), IngredientWeight)
                  ELSE score3
    IN  score4

(***************************************************************************)
(* The same computation in IEEE 754 binary64, round to nearest, ties to    *)
(* even.  A double x is the pair <<units, roundoff>> with                  *)
(*     x = (units + roundoff / 2^60) / Scale,                              *)
(* units being the value the computation has in exact arithmetic and       *)
(* roundoff the rounding error accumulated so far.  The doubles of the     *)
(* binade [2^e, 2^(e+1)) are the multiples of 2^(e-52), which is           *)
(* Scale * 2^(e+8) of the units of roundoff.                               *)
(***************************************************************************)
Zero == <<0, 0>>

sign(x) == IF x > 0 THEN 1 ELSE IF x < 0 THEN 0 - 1 ELSE 0

\* floor(a / b) and a - b * floor(a / b), for b > 0 and a of either sign
floorDiv(a, b) == IF a >= 0 THEN a \div b ELSE 0 - (((0 - a) + b - 1) \div b)
floorMod(a, b) == a - b * floorDiv(a, b)

\* 2^k modulo Scale
RECURSIVE pow2mod(_)
pow2mod(k) == IF k = 0 THEN 1 ELSE (2 * pow2mod(k - 1)) % Scale

\* the binary exponents of the values a score and its terms take
Exponents == (0 - 7)..1

\* units / Scale >= 2^e, where below tells the sign of what the value has
\* in excess of units / Scale
atLeastPowerOfTwo(units, below, e) ==
    \/ units * 2^7 > Scale * 2^(e + 7)
    \/ units * 2^7 = Scale * 2^(e + 7) /\ below >= 0

\* the binade of a positive value
binade(units, below) ==
    CHOOSE e \in Exponents :
        /\ atLeastPowerOfTwo(units, below, e)
        /\ \A f \in Exponents : f > e => ~atLeastPowerOfTwo(units, below, f)

\* The double nearest to (units + (roundoff + f) / 2^60) / Scale, where f is 0
\* when frac = 0, lies strictly between 0 and 1 when frac = 1 and strictly
\* between -1 and 0 when frac = -1.  r is the distance of the value from
\* the double below it, and odd tells whether that double has an odd
\* significand.
roundToDouble(units, roundoff, frac) ==
    IF units = 0 /\ roundoff = 0 /\ frac = 0 THEN Zero
    ELSE LET e == binade(units, IF roundoff # 0 THEN sign(roundoff) ELSE frac)
             spacing == Scale * 2^(e + 8)
             r2 == floorMod(2^(e + 9) * ((units * pow2mod(51 - e)) % Scale) + roundoff,
                            2 * spacing)
             r == r2 % spacing
             odd == r2 >= spacing
             up == \/ 2 * r > spacing
                   \/ 2 * r = spacing /\ (frac > 0 \/ (frac = 0 /\ odd))
         IN  IF up THEN <<units, roundoff - r + spacing>>
                   ELSE <<units, roundoff - r>>

\* the literals 0.4, 0.3, 0.2 and 0.1: the double nearest to tenths / 10
literal(tenths) == roundToDouble((tenths * Scale) \div 10, 0, 0)

\* a + b on doubles
fadd(a, b) ==
    IF a = Zero THEN b
    ELSE IF b = Zero THEN a
    ELSE roundToDouble(a[1] + b[1], a[2] + b[2], 0)

\* n / d on the sizes of two sets, 0 <= n <= d and d a divisor of Scale
fdiv(n, d) == roundToDouble((Scale * n) \div d, 0, 0)

\* a * w on doubles.  The product is
\*     (a[1] * w[1] / Scale + (a[1] * w[2] + a[2] * w[1]) / (Scale * 2^60)
\*                          + a[2] * w[2] / (Scale * 2^120)) / Scale:
\* cross / Scale gives whole units of roundoff and a fraction of one, and the
\* last term is a fraction of one with the sign of a[2] * w[2].
fmul(a, w) ==
    LET cross == a[1] * w[2] + a[2] * w[1]
        whole == floorDiv(cross, Scale)
        rest == cross - whole * Scale
    IN  roundToDouble((a[1] * w[1]) \div Scale, whole,
                      IF rest > 0 THEN 1 ELSE sign(a[2]) * sign(w[2]))

\* a > b on doubles
greaterThan(a, b) == a[1] > b[1] \/ (a[1] = b[1] /\ a[2] > b[2])

calculateSimilarityDouble(target, candidate) ==
    LET score0 == Zero
        score1 == IF strictEquals(target.cuisine, candidate.cuisine)
                  THEN fadd(score0, literal(4)) ELSE score0
        score2 == IF strictEquals(target.category, candidate.category)
                  THEN fadd(score1, literal(3)) ELSE score1
        targetTags == NewSet(mapToLowerCase(target.tags))
        candidateTags == NewSet(mapToLowerCase(candidate.tags))
        tagIntersection == NewSet(filterHas(targetTags, candidateTags))
        tagUnion == unionOf(targetTags, candidateTags)
        tagSimilarity == fdiv(Len(tagIntersection), Len(tagUnion))
        score3 == IF Len(tagUnion) > 0
                  THEN fadd(score2, fmul(tagSimilarity, literal(2)))
                  ELSE score2
        targetIngredients == NewSet(mapToLowerCase(target.ingredients))
        candidateIngredients == NewSet(mapToLowerCase(candidate.ingredients))
        ingredientIntersection == NewSet(filterHas(targetIngredients, candidateIngredients))
        ingredientUnion == unionOf(targetIngredients, candidateIngredients)
        ingredientSimilarity == fdiv(Len(ingredientIntersection), Len(ingredientUnion))
        score4 == IF Len(ingredientUnion) > 0
                  THEN fadd(score3, fmul(ingredientSimilarity, literal(1)))
                  ELSE score3
    IN  score4

\* score > 0.1 on the double
aboveThresholdDouble(score) == greaterThan(score, literal(1))

(***************************************************************************)
(* RecipeRecommendationEngine.generateReasons.  A reason is the tuple of   *)
(* the pieces of its template string.                                      *)
(***************************************************************************)
CommaSpace == <<",", " ">>
sameCuisineReason(cuisine) == <<"Same cuisine (", cuisine, ")">>
sameCategoryReason(category) == <<"Same category (", category, ")">>
\* Mutant: the tag reason is capped like the ingredient reason, at two names.
similarTagsReasonOfTwo(commonTags) ==
    <<"Similar tags: ", join(slice(commonTags, 0, 2), CommaSpace)>>
similarTagsReason(commonTags) == <<"Similar tags: ", join(slice(commonTags, 0, 3), CommaSpace)>>
similarIngredientsReason(commonIngredients) ==
    <<"Similar ingredients: ", join(slice(commonIngredients, 0, 2), CommaSpace)>>
FallbackReasons == << <<"Similar recipe">> >>

\* Mutant: no fallback reason.
orNothing(rs) == rs

\* Mutant: the fallback reason is always added.
orFallbackAlways(rs) == rs \o FallbackReasons

\* return reasons.length > 0 ? reasons : ["Similar recipe"]
orFallback(rs) == IF Len(rs) > 0 THEN rs ELSE FallbackReasons

\* Mutant: the category rule is evaluated before the cuisine rule.
generateReasonsCategoryFirst(target, candidate) ==
    LET reasons0 == <<>>
        reasons1 == IF strictEquals(target.category, candidate.category)
                    THEN Append(reasons0, sameCategoryReason(target.category))
                    ELSE reasons0
        reasons2 == IF strictEquals(target.cuisine, candidate.cuisine)
                    THEN Append(reasons1, sameCuisineReason(target.cuisine))
                    ELSE reasons1
        commonTags == filterHas(NewSet(mapToLowerCase(target.tags)),
                                NewSet(mapToLowerCase(candidate.tags)))
        reasons3 == IF Len(commonTags) > 0
                    THEN Append(reasons2, similarTagsReason(commonTags))
                    ELSE reasons2
        commonIngredients == filterHas(NewSet(mapToLowerCase(target.ingredients)),
                                       NewSet(mapToLowerCase(candidate.ingredients)))
        reasons4 == IF Len(commonIngredients) > 0
                    THEN Append(reasons3, similarIngredientsReason(commonIngredients))
                    ELSE reasons3
    IN  orFallback(reasons4)

generateReasons(target, candidate) ==
    LET reasons0 == <<>>
        reasons1 == IF strictEquals(target.cuisine, candidate.cuisine)
                    THEN Append(reasons0, sameCuisineReason(target.cuisine))
                    ELSE reasons0
        reasons2 == IF strictEquals(target.category, candidate.category)
                    THEN Append(reasons1, sameCategoryReason(target.category))
                    ELSE reasons1
        targetTags == NewSet(mapToLowerCase(target.tags))
        candidateTags == NewSet(mapToLowerCase(candidate.tags))
        commonTags == filterHas(targetTags, candidateTags)
        reasons3 == IF Len(commonTags) > 0
                    THEN Append(reasons2, similarTagsReason(commonTags))
                    ELSE reasons2
        targetIngredients == NewSet(mapToLowerCase(target.ingredients))
        candidateIngredients == NewSet(mapToLowerCase(candidate.ingredients))
        commonIngredients == filterHas(targetIngredients, candidateIngredients)
        reasons4 == IF Len(commonIngredients) > 0
                    THEN Append(reasons3, similarIngredientsReason(commonIngredients))
                    ELSE reasons3
    IN  orFallback(reasons4)

(***************************************************************************)
(* RecipeRecommendationEngine.getRecommendations                           *)
(***************************************************************************)
\* Mutant: the target is excluded by comparing whole recipes, not ids.
isCandidateByValue(recipe, target) == recipe # target

\* Mutant: the pool is not filtered at all.
isCandidateAlways(recipe, target) == TRUE

\* (recipe) => recipe.id !== targetRecipe.id
isCandidate(recipe, target) == recipe.id # target.id

\* Mutant: every score from 0 up passes.
atOrAboveZero(score) == score >= 0

\* Mutant: the threshold is inclusive.
atOrAboveThreshold(score) == score >= Threshold

\* if (score > 0.1)
aboveThreshold(score) == score > Threshold

\* Mutant: the comparator sorts lowest first.
compareScoresAscending(a, b) == a.score - b.score

\* (a, b) => b.score - a.score
compareScores(a, b) == b.score - a.score

\* Array.prototype.sort with a comparator: a stable sort, x goes after every
\* element that does not compare greater than it
\* Mutant: x goes before the elements it ties with (an unstable sort).
insertSortedBeforeTies(sorted, x) ==
    LET after == {i \in 1..Len(sorted) : compareScores(sorted[i], x) < 0}
        k == IF after = {} THEN 0 ELSE CHOOSE i \in after : \A j \in after : j <= i
    IN  SubSeq(sorted, 1, k) \o <<x>> \o SubSeq(sorted, k + 1, Len(sorted))

insertSorted(sorted, x) ==
    LET after == {i \in 1..Len(sorted) : compareScores(sorted[i], x) <= 0}
        k == IF after = {} THEN 0 ELSE CHOOSE i \in after : \A j \in after : j <= i
    IN  SubSeq(sorted, 1, k) \o <<x>> \o SubSeq(sorted, k + 1, Len(sorted))

\* Mutant: the list is returned in pool order, unsorted.
sortNot(arr) == arr

RECURSIVE sort(_)
sort(arr) ==
    IF Len(arr) <= 1 THEN arr
    ELSE insertSorted(sort(SubSeq(arr, 1, Len(arr) - 1)), arr[Len(arr)])

\* Mutant: the reasons are generated with the two recipes exchanged.
RECURSIVE scoreCandidatesReasonsSwapped(_, _)
scoreCandidatesReasonsSwapped(target, candidateRecipes) ==
    IF Len(candidateRecipes) = 0 THEN <<>>
    ELSE LET init == scoreCandidatesReasonsSwapped(target,
                         SubSeq(candidateRecipes, 1, Len(candidateRecipes) - 1))
             candidateRecipe == candidateRecipes[Len(candidateRecipes)]
             score == calculateSimilarity(target, candidateRecipe)
         IN  IF aboveThreshold(score)
             THEN Append(init, [recipe |-> candidateRecipe,
                                score |-> score,
                                reasons |-> generateReasons(candidateRecipe, target)])
             ELSE init

\* candidateRecipes.forEach(...): the recommendations pushed, in pool order
RECURSIVE scoreCandidates(_, _)
scoreCandidates(target, candidateRecipes) ==
    IF Len(candidateRecipes) = 0 THEN <<>>
    ELSE LET init == scoreCandidates(target,
                         SubSeq(candidateRecipes, 1, Len(candidateRecipes) - 1))
             candidateRecipe == candidateRecipes[Len(candidateRecipes)]
             score == calculateSimilarity(target, candidateRecipe)
         IN  IF aboveThreshold(score)
             THEN Append(init, [recipe |-> candidateRecipe,
                                score |-> score,
                                reasons |-> generateReasons(target, candidateRecipe)])
             ELSE init

\* Mutant: an omitted limit stands for twice the default.
defaultLimitDoubled(limit) ==
    IF Len(limit) = 0 THEN DefaultMaxRecommendations + DefaultMaxRecommendations ELSE limit[1]

\* maxRecommendations: number = 6; limit is <<n>>, or <<>> for an omitted argument
defaultLimit(limit) == IF Len(limit) = 0 THEN DefaultMaxRecommendations ELSE limit[1]

\* The arrays of one call, by the name the method knows them under:
\* allRecipes is the caller's array, the others are built by the call.
arraysAtCall(pool) == [allRecipes |-> pool, candidateRecipes |-> <<>>, recommendations |-> <<>>]

\* Mutant: the target is removed from the caller's array in place (splice).
afterSplice(target, arrays) ==
    LET isCandidateOfTarget(recipe) == isCandidate(recipe, target)
    IN  [arrays EXCEPT !.allRecipes = SelectSeq(arrays.allRecipes, isCandidateOfTarget),
                       !.candidateRecipes = SelectSeq(arrays.allRecipes, isCandidateOfTarget)]

\* const candidateRecipes = allRecipes.filter(...): filter builds a new array
afterFilter(target, arrays) ==
    LET isCandidateOfTarget(recipe) == isCandidate(recipe, target)
    IN  [arrays EXCEPT !.candidateRecipes = SelectSeq(arrays.allRecipes, isCandidateOfTarget)]

\* candidateRecipes.forEach(...): pushes onto recommendations
afterForEach(target, arrays) ==
    [arrays EXCEPT !.recommendations = scoreCandidates(target, arrays.candidateRecipes)]

\* recommendations.sort(...): sorts the array in place
afterSort(arrays) == [arrays EXCEPT !.recommendations = sort(arrays.recommendations)]

\* the arrays when the sort is done
beforeSlice(target, pool) ==
    afterSort(afterForEach(target, afterFilter(target, arraysAtCall(pool))))

\* .slice(0, maxRecommendations): the caller's array when the call returns,
\* and the array it returns (slice builds a new one)
afterSlice(arrays, limit) ==
    [allRecipes |-> arrays.allRecipes,
     result |-> slice(arrays.recommendations, 0, defaultLimit(limit))]

getRecommendationsEffects(target, pool, limit) ==
    afterSlice(beforeSlice(target, pool), limit)

getRecommendations(target, pool, limit) == getRecommendationsEffects(target, pool, limit).result

(***************************************************************************)
(* server.js: GET /api/recipes/:id/recommendations.  A column of a row is  *)
(* <<>> for NULL and <<s>> for the string s.                               *)
(***************************************************************************)
Digits == <<"0", "1", "2", "3", "4", "5", "6", "7", "8", "9">>
WhiteSpace == {" "}
Comma == <<",">>

min(S) == CHOOSE x \in S : \A y \in S : x <= y
max(S) == CHOOSE x \in S : \A y \in S : x >= y

\* String.prototype.split with a one-character separator
RECURSIVE split(_, _)
split(s, sep) ==
    LET at == {i \in 1..Len(s) : s[i] = sep[1]}
    IN  IF at = {} THEN <<s>>
        ELSE <<SubSeq(s, 1, min(at) - 1)>> \o split(SubSeq(s, min(at) + 1, Len(s)), sep)

\* String.prototype.trim
trim(s) ==
    LET kept == {i \in 1..Len(s) : s[i] \notin WhiteSpace}
    IN  IF kept = {} THEN <<>> ELSE SubSeq(s, min(kept), max(kept))

\* recipe.x ? recipe.x.split(",").map((item) => item.trim()).filter((item) => item) : []
toList(column) ==
    LET isTruthy(item) == Len(item) > 0
        pieces == split(column[1], Comma)
    IN  IF Len(column) = 1 /\ Len(column[1]) > 0
        THEN SelectSeq([i \in 1..Len(pieces) |-> trim(pieces[i])], isTruthy)
        ELSE <<>>

processRecipe(recipe) ==
    [recipe EXCEPT !.instructions = toList(recipe.instructions),
                   !.ingredients = toList(recipe.ingredients),
                   !.tags = toList(recipe.tags)]

\* Number.prototype.toString of an integer
RECURSIVE digitsOf(_)
digitsOf(n) ==
    IF n < 10 THEN <<Digits[n + 1]>> ELSE Append(digitsOf(n \div 10), Digits[(n % 10) + 1])
numberToString(n) == IF n < 0 THEN <<"-">> \o digitsOf(0 - n) ELSE digitsOf(n)

\* parseInt of a string: leading white space, a sign, then the longest run
\* of decimal digits; <<>> is NaN
digitValue(c) == (CHOOSE i \in 1..Len(Digits) : Digits[i] = c) - 1
isDigit(c) == \E i \in 1..Len(Digits) : Digits[i] = c
RECURSIVE valueOfDigits(_)
valueOfDigits(s) ==
    IF Len(s) = 0 THEN 0
    ELSE 10 * valueOfDigits(SubSeq(s, 1, Len(s) - 1)) + digitValue(s[Len(s)])
parseIntOfString(str) ==
    LET kept == {i \in 1..Len(str) : str[i] \notin WhiteSpace}
        s == IF kept = {} THEN <<>> ELSE SubSeq(str, min(kept), Len(str))
        signed == Len(s) > 0 /\ s[1] \in {"-", "+"}
        body == IF signed THEN SubSeq(s, 2, Len(s)) ELSE s
        stops == {i \in 1..Len(body) : ~isDigit(body[i])}
        run == IF stops = {} THEN body ELSE SubSeq(body, 1, min(stops) - 1)
    IN  IF Len(run) = 0 THEN <<>>
        ELSE IF signed /\ s[1] = "-" THEN <<0 - valueOfDigits(run)>>
        ELSE <<valueOfDigits(run)>>

\* const { limit = 6 } = req.query: the number 6 or the string of the query
DefaultLimit == 6
limitOf(query) == IF Len(query) = 0 THEN <<"number", DefaultLimit>> ELSE <<"string", query[1]>>
\* parseInt(limit): a number argument is converted to its string first
parseInt(limit) ==
    IF limit[1] = "number" THEN parseIntOfString(numberToString(limit[2]))
    ELSE parseIntOfString(limit[2])
\* the end index slice makes of parseInt's result: NaN counts as 0
toIntegerOrInfinity(number) == IF Len(number) = 0 THEN 0 ELSE number[1]

\* SELECT * FROM recipes WHERE id = ?  (id is the key of the table)
selectById(table, id) ==
    IF \E row \in table : row.id = id
    THEN <<CHOOSE row \in table : row.id = id>>
    ELSE <<>>

\* the order of two names under ORDER BY name: letter by letter, without
\* regard to case, a prefix first
letterRank(c) ==
    LET at == {i \in 1..Len(LowerCase) : LowerCase[i] = toLowerCaseChar(c)}
    IN  IF at = {} THEN 0 ELSE min(at)
RECURSIVE nameBeforeOrSame(_, _)
nameBeforeOrSame(a, b) ==
    IF Len(a) = 0 THEN TRUE
    ELSE IF Len(b) = 0 THEN FALSE
    ELSE IF letterRank(a[1]) # letterRank(b[1]) THEN letterRank(a[1]) < letterRank(b[1])
    ELSE nameBeforeOrSame(Tail(a), Tail(b))

\* the orders in which rows can come back sorted by name; rows of equal
\* name come in either order
RECURSIVE orderedByName(_)
orderedByName(rows) ==
    IF rows = {} THEN {<<>>}
    ELSE LET first == {r \in rows : \A q \in rows : nameBeforeOrSame(r.name, q.name)}
         IN  UNION {{<<r>> \o rest : rest \in orderedByName(rows \ {r})} : r \in first}

\* SELECT * FROM recipes WHERE id != ? ORDER BY name
selectOthersOrderByName(table, id) == orderedByName({row \in table : row.id # id})

\* Mutant: the reasons name at most two tags.
inlineTagsReasonOfTwo(tagIntersection) ==
    <<"Similar tags: ", join(slice(tagIntersection, 0, 2), CommaSpace)>>
inlineTagsReason(tagIntersection) ==
    <<"Similar tags: ", join(slice(tagIntersection, 0, 3), CommaSpace)>>
inlineIngredientsReason(ingredientIntersection) ==
    <<"Similar ingredients: ", join(slice(ingredientIntersection, 0, 2), CommaSpace)>>

\* the callback of candidateRecipes.map: score and reasons of one candidate
scoreInline(target, candidate) ==
    LET score0 == 0
        reasons0 == <<>>
        sameCuisine == strictEquals(target.cuisine, candidate.cuisine)
        score1 == IF sameCuisine THEN score0 + CuisineWeight ELSE score0
        reasons1 == IF sameCuisine
                    THEN Append(reasons0, <<"Same cuisine (", candidate.cuisine, ")">>)
                    ELSE reasons0
        sameCategory == strictEquals(target.category, candidate.category)
        score2 == IF sameCategory THEN score1 + CategoryWeight ELSE score1
        reasons2 == IF sameCategory
                    THEN Append(reasons1, <<"Same category (", candidate.category, ")">>)
                    ELSE reasons1
        targetTags == NewSet(mapToLowerCase(target.tags))
        candidateTags == NewSet(mapToLowerCase(candidate.tags))
        tagIntersection == NewSet(filterHas(targetTags, candidateTags))
        tagUnion == unionOf(targetTags, candidateTags)
        score3 == IF Len(tagUnion) > 0
                  THEN score2 + ratioTimes(Len(tagIntersection), Len(tagUnion), TagWeight)
                  ELSE score2
        reasons3 == IF Len(tagUnion) > 0 /\ Len(tagIntersection) > 0
                    THEN Append(reasons2, inlineTagsReason(tagIntersection))
                    ELSE reasons2
        targetIngredients == NewSet(mapToLowerCase(target.ingredients))
        candidateIngredients == NewSet(mapToLowerCase(candidate.ingredients))
        ingredientIntersection == NewSet(filterHas(targetIngredients, candidateIngredients))
        ingredientUnion == unionOf(targetIngredients, candidateIngredients)
        score4 == IF Len(ingredientUnion) > 0
                  THEN score3 + ratioTimes(Len(ingredientIntersection),
                                           Len(ingredientUnion), IngredientWeight)
                  ELSE score3
        reasons4 == IF Len(ingredientUnion) > 0 /\ Len(ingredientIntersection) > 0
                    THEN Append(reasons3, inlineIngredientsReason(ingredientIntersection))
                    ELSE reasons3
    IN  [recipe |-> candidate,
         score |-> score4,
         reasons |-> IF Len(reasons4) > 0 THEN reasons4 ELSE << <<"Similar recipe">> >>]

\* Mutant: every scored candidate is kept.
keepInlineAlways(rec) == TRUE

\* .filter((rec) => rec.score > 0.1)
keepInline(rec) == rec.score > Threshold

\* candidateRecipes.map(...).filter(...).sort(...).slice(0, parseInt(limit))
recommendationsInline(target, candidates, limit) ==
    LET scored == [i \in 1..Len(candidates) |-> scoreInline(target, candidates[i])]
    IN  slice(sort(SelectSeq(scored, keepInline)), 0, toIntegerOrInfinity(parseInt(limit)))

\* the handler from its queries to its response: what it can respond to a
\* request, with the processed rows it computed the response from
endpointOutcomes(table, id, query) ==
    LET targetRows == selectById(table, id)
    IN  IF Len(targetRows) = 0
        THEN {[status |-> 404]}
        ELSE {[status |-> 200,
               processedTarget |-> processRecipe(targetRows[1]),
               candidateRecipes |-> [i \in 1..Len(allRows) |-> processRecipe(allRows[i])],
               recommendations |->
                   recommendationsInline(
                       processRecipe(targetRows[1]),
                       [i \in 1..Len(allRows) |-> processRecipe(allRows[i])],
                       limitOf(query))] :
                 allRows \in selectOthersOrderByName(table, id)}

(***************************************************************************)
(* Inputs.  Words are spelled out so that their letter case is real.       *)
(***************************************************************************)
Italian == <<"I","t","a","l","i","a","n">>
italian == <<"i","t","a","l","i","a","n">>
Thai == <<"T","h","a","i">>
Dessert == <<"D","e","s","s","e","r","t">>
dessert == <<"d","e","s","s","e","r","t">>
Main == <<"M","a","i","n">>
sweet == <<"s","w","e","e","t">>
Sweet == <<"S","w","e","e","t">>
baked == <<"b","a","k","e","d">>
Baked == <<"B","a","k","e","d">>
quick == <<"q","u","i","c","k">>
easy == <<"e","a","s","y">>
spicy == <<"s","p","i","c","y">>
flour == <<"f","l","o","u","r">>
Flour == <<"F","l","o","u","r">>
sugar == <<"s","u","g","a","r">>
Sugar == <<"S","u","g","a","r">>
butter == <<"b","u","t","t","e","r">>
eggs == <<"e","g","g","s">>
milk == <<"m","i","l","k">>

Cuisines == {Italian, italian, Thai}
Categories == {Dessert, dessert, Main}
TagLists ==
    { <<>>, <<sweet, baked>>, <<sweet, quick>>, <<Sweet, sweet>>, <<spicy>>,
      <<easy, quick, Baked, Sweet>>, <<sweet, baked, quick, easy>> }
IngredientLists ==
    { <<>>, <<flour, sugar>>, <<flour, butter>>, <<Sugar, Flour>>, <<eggs>>,
      <<butter, sugar, flour>> }

Recipe(id, cuisine, category, tags, ingredients) ==
    [id |-> id, cuisine |-> cuisine, category |-> category,
     tags |-> tags, ingredients |-> ingredients]

\* The pairs calculateSimilarity and generateReasons are applied to.
PairTargets ==
    {Recipe("r1", cu, Dessert, t, i) :
        cu \in {Italian, italian}, t \in TagLists, i \in IngredientLists}
PairCandidates ==
    {Recipe("r2", cu, ca, t, i) :
        cu \in Cuisines, ca \in Categories, t \in TagLists, i \in IngredientLists}

\* The pairs whose score is computed as a double.  Relative to the tags
\* <<sweet, baked, quick>> the tag lists have the Jaccard ratios 0, 1/5,
\* 1/3, 2/5, 1/2, 2/3, 3/4 and 1, and likewise the ingredient lists
\* relative to <<flour, sugar, butter>>.
OverlapTagLists ==
    { <<>>, <<spicy>>, <<sweet, easy, spicy>>, <<sweet>>, <<sweet, baked, easy, spicy>>,
      <<Sweet, baked, easy>>, <<sweet, baked>>, <<sweet, baked, quick, easy>>,
      <<quick, Baked, sweet>> }
OverlapIngredientLists ==
    { <<>>, <<eggs>>, <<flour, eggs, milk>>, <<flour>>, <<flour, sugar, eggs, milk>>,
      <<flour, Sugar, eggs>>, <<flour, sugar>>, <<butter, sugar, flour>> }
OverlapTargets ==
    {Recipe("r1", Italian, Dessert, <<sweet, baked, quick>>, i) :
        i \in {<<flour, sugar, butter>>, <<>>}}
OverlapCandidates ==
    {Recipe("r2", cu, ca, t, i) :
        cu \in {Italian, Thai}, ca \in {Dessert, Main},
        t \in OverlapTagLists, i \in OverlapIngredientLists}

\* The catalog the pools of getRecommendations are drawn from.  Relative to
\* Tiramisu: Cannoli is the worked example of the specification (0.8),
\* Brownie and Sorbet tie on the category alone (0.3), Toast has tag Jaccard
\* 1/2 and Syrup ingredient Jaccard 1 and nothing else (0.1 each), Scone has
\* tag Jaccard 1 alone (0.2), Pasta shares nothing, and TiramisuOld is an
\* entry with the id of Tiramisu and other contents.
Tiramisu == Recipe("r1", Italian, Dessert, <<sweet, baked>>, <<flour, sugar>>)
TiramisuOld == Recipe("r1", Thai, Dessert, <<sweet, baked>>, <<flour, sugar>>)
Cannoli == Recipe("r2", Italian, Dessert, <<sweet, quick>>, <<flour, butter>>)
Brownie == Recipe("r3", Thai, Dessert, <<spicy>>, <<eggs>>)
Sorbet == Recipe("r4", Thai, Dessert, <<>>, <<>>)
Toast == Recipe("r5", Thai, Main, <<Sweet>>, <<eggs>>)
Syrup == Recipe("r6", Thai, Main, <<spicy>>, <<Sugar, Flour>>)
Scone == Recipe("r7", Thai, Main, <<Baked, sweet, Sweet>>, <<>>)
Pasta == Recipe("r8", italian, Main, <<spicy>>, <<eggs>>)

Catalog == {Tiramisu, TiramisuOld, Cannoli, Brownie, Sorbet, Toast, Syrup, Scone, Pasta}
Targets == {Tiramisu, Toast}

\* pools longer than the default limit, of two recipes
LongPools ==
    UNION {[1..n -> {Cannoli, Brownie}] :
               n \in (DefaultMaxRecommendations + 1)..(DefaultMaxRecommendations + 2)}
Pools == UNION {[1..n -> Catalog] : n \in 0..MaxPool} \cup LongPools
Limits == {<<n>> : n \in (0 - MaxLimit)..MaxLimit} \cup {<<>>}

\* The rows of the recipes table.  A list column holds the names joined by
\* ", " as POST /api/recipes stores them, or spelled with other spacing.
Row(id, name, cuisine, category, tags, ingredients) ==
    [id |-> id, name |-> name, cuisine |-> cuisine, category |-> category,
     tags |-> tags, ingredients |-> ingredients, instructions |-> <<<<"m", "i", "x">>>>]
Text(list) == <<join(list, CommaSpace)>>
Null == <<>>
Space == <<" ">>
RowTiramisu == Row("r1", <<"T","i","r","a">>, Italian, Dessert,
                   Text(<<sweet, baked, quick>>), Text(<<flour, sugar>>))
RowCannoli == Row("r2", <<"C","a","n","n">>, Italian, Dessert,
                  Text(<<sweet, quick>>), Text(<<flour, butter>>))
RowBrownie == Row("r3", <<"B","r","o","w">>, Thai, Dessert, Text(<<spicy>>), Text(<<eggs>>))
RowSorbet == Row("r4", <<"S","o","r","b">>, Thai, Dessert, Null, Text(<<eggs>>))
RowToast == Row("r5", <<"T","o","a","s">>, Thai, Main, Text(<<Sweet>>), Text(<<eggs>>))
RowScone == Row("r7", <<"s","o","r","b">>, Thai, Main,
                <<Space \o Baked \o Space \o Comma \o sweet \o Comma \o Comma
                      \o Space \o Comma \o Sweet \o Space>>,
                Text(<<eggs>>))
RowPasta == Row("r8", <<"P","a","s","t">>, italian, Main, Text(<<spicy>>), Text(<<eggs>>))
RowGelato == Row("r9", <<"G","e","l","a">>, Italian, Main, Text(<<spicy>>), Text(<<eggs>>))
RowPanna == Row("r10", <<"P","a","n">>, Italian, Dessert, <<<<>>>>, Text(<<eggs>>))
RowTorta == Row("r11", <<"T","o","r","t">>, Italian, Dessert,
                <<Baked \o Comma \o sweet \o Comma \o Space \o quick>>, <<Sugar \o Space \o Comma \o Space \o Flour>>)

RowCatalog == {RowTiramisu, RowCannoli, RowBrownie, RowSorbet, RowToast, RowScone,
               RowPasta, RowGelato, RowPanna, RowTorta}
\* small tables, and the whole catalog with at most one row missing
Tables ==
    {t \in SUBSET RowCatalog : Cardinality(t) <= MaxPool}
        \cup {RowCatalog \ t : t \in {s \in SUBSET RowCatalog : Cardinality(s) <= 1}}
RequestIds == {"r1", "r5", "r0"}
QueryLimits ==
    {<<>>} \cup {<<numberToString(n)>> : n \in 0..MaxLimit}
        \cup {<<<<"-", "1">>>>, <<<<>>>>, <<<<"a", "b", "c">>>>, <<<<"2", "x">>>>,
              <<<<" ", "2">>>>}

(***************************************************************************)
(* The state machine.  A behaviour is either one call of                   *)
(* getRecommendations (phase "called", then "returned") or one call of     *)
(* calculateSimilarity or generateReasons on a pair (phase "pair", then    *)
(* "scored" or "explained").                                               *)
(***************************************************************************)
NoRecipe == Recipe("", <<>>, <<>>, <<>>, <<>>)

DoubleIdle ==
    /\ candidateScore = Zero
    /\ pushed = FALSE

PairIdle ==
    /\ pairTarget = NoRecipe
    /\ pairCandidate = NoRecipe
    /\ similarity = 0
    /\ reasons = <<>>
    /\ DoubleIdle

PoolIdle ==
    /\ targetRecipe = NoRecipe
    /\ allRecipes = <<>>
    /\ maxRecommendations = <<>>
    /\ returned = <<>>

NoRow == Row("", <<>>, <<>>, <<>>, Null, Null)

ServerIdle ==
    /\ recipesTable = {}
    /\ reqParamsId = ""
    /\ reqQueryLimit = <<>>
    /\ processedTarget = NoRow
    /\ serverCandidates = <<>>
    /\ resStatus = 0
    /\ resRecommendations = <<>>

UiIdle ==
    /\ currentRecipe = ""
    /\ recommendations = <<>>
    /\ loading = FALSE
    /\ error = <<>>
    /\ effectPending = FALSE
    /\ requests = <<>>

InitPool ==
    /\ phase = "called"
    /\ targetRecipe \in Targets
    /\ allRecipes \in Pools
    /\ maxRecommendations = <<>>
    /\ returned = <<>>
    /\ PairIdle
    /\ ServerIdle
    /\ UiIdle

InitPair ==
    /\ phase = "pair"
    /\ pairTarget \in PairTargets
    /\ pairCandidate \in PairCandidates
    /\ similarity = 0
    /\ reasons = <<>>
    /\ DoubleIdle
    /\ PoolIdle
    /\ ServerIdle
    /\ UiIdle

\* the forEach of getRecommendations has reached the candidate pairCandidate
InitDouble ==
    /\ phase = "pair"
    /\ pairTarget \in OverlapTargets
    /\ pairCandidate \in OverlapCandidates
    /\ similarity = 0
    /\ reasons = <<>>
    /\ DoubleIdle
    /\ PoolIdle
    /\ ServerIdle
    /\ UiIdle

\* a request GET /api/recipes/:id/recommendations[?limit=s] has arrived
InitServer ==
    /\ phase = "requested"
    /\ recipesTable \in Tables
    /\ reqParamsId \in RequestIds
    /\ reqQueryLimit \in QueryLimits
    /\ processedTarget = NoRow
    /\ serverCandidates = <<>>
    /\ resStatus = 0
    /\ resRecommendations = <<>>
    /\ PoolIdle
    /\ PairIdle
    /\ UiIdle

\* recommendationEngine.getRecommendations(targetRecipe, allRecipes, limit)
\* for any limit: filter, forEach and sort do not depend on the limit, so the
\* arrays they leave are taken once and sliced for each limit
GetRecommendations ==
    /\ phase = "called"
    /\ \E arrays \in {beforeSlice(targetRecipe, allRecipes)}, limit \in Limits :
           LET effects == afterSlice(arrays, limit)
           IN  /\ maxRecommendations' = limit
               /\ allRecipes' = effects.allRecipes
               /\ returned' = effects.result
    /\ phase' = "returned"
    /\ UNCHANGED <<targetRecipe, pairTarget, pairCandidate, similarity, reasons,
                   serverVars, uiVars, doubleVars>>

\* this.calculateSimilarity(pairTarget, pairCandidate)
CalculateSimilarity ==
    /\ phase = "pair"
    /\ similarity' = calculateSimilarity(pairTarget, pairCandidate)
    /\ phase' = "scored"
    /\ UNCHANGED <<targetRecipe, allRecipes, maxRecommendations, returned,
                   pairTarget, pairCandidate, reasons,
                   serverVars, uiVars, doubleVars>>

\* this.generateReasons(pairTarget, pairCandidate)
GenerateReasons ==
    /\ phase = "pair"
    /\ reasons' = generateReasons(pairTarget, pairCandidate)
    /\ phase' = "explained"
    /\ UNCHANGED <<targetRecipe, allRecipes, maxRecommendations, returned,
                   pairTarget, pairCandidate, similarity,
                   serverVars, uiVars, doubleVars>>

\* One pass of the forEach body of getRecommendations, up to the test that
\* decides whether the candidate is pushed:
\* const score = this.calculateSimilarity(targetRecipe, candidateRecipe);
\* if (score > 0.1) { ... recommendations.push(...) }
ScoreCandidate ==
    /\ phase = "pair"
    /\ isCandidate(pairCandidate, pairTarget)
    /\ candidateScore' = calculateSimilarityDouble(pairTarget, pairCandidate)
    /\ pushed' = aboveThresholdDouble(candidateScore')
    /\ phase' = "tested"
    /\ UNCHANGED <<targetRecipe, allRecipes, maxRecommendations, returned,
                   pairTarget, pairCandidate, similarity, reasons,
                   serverVars, uiVars>>

engineVars == <<targetRecipe, allRecipes, maxRecommendations, returned,
                pairTarget, pairCandidate, similarity, reasons, doubleVars>>

\* app.get("/api/recipes/:id/recommendations", ...): the handler runs to its
\* response, 404 when no row has the id, else 200 with the recommendations
RecommendationsEndpoint ==
    /\ phase = "requested"
    /\ \E outcome \in endpointOutcomes(recipesTable, reqParamsId, reqQueryLimit) :
           /\ resStatus' = outcome.status
           /\ IF outcome.status = 200
              THEN /\ processedTarget' = outcome.processedTarget
                   /\ serverCandidates' = outcome.candidateRecipes
                   /\ resRecommendations' = outcome.recommendations
              ELSE UNCHANGED <<processedTarget, serverCandidates, resRecommendations>>
    /\ phase' = "responded"
    /\ UNCHANGED <<recipesTable, reqParamsId, reqQueryLimit, engineVars, uiVars>>

\* catch (error): a query of the handler was rejected
EndpointError ==
    /\ phase = "requested"
    /\ resStatus' = 500
    /\ phase' = "responded"
    /\ UNCHANGED <<recipesTable, reqParamsId, reqQueryLimit, processedTarget,
                   serverCandidates, resRecommendations, engineVars, uiVars>>

NextServer == RecommendationsEndpoint \/ EndpointError

\* the table behind the API the component calls, and the recipes it is shown for
UiTable == {RowTiramisu, RowCannoli, RowBrownie, RowToast, RowGelato}
UiRecipes == {"r1", "r5", "r9", "r0"}
\* the query the component sends: limit=6
UiQueries == {<<numberToString(6)>>}

\* the outcomes of the endpoint for the requests the component can send,
\* evaluated once
UiOutcomes ==
    [id \in UiRecipes |->
        [query \in UiQueries |-> endpointOutcomes(UiTable, id, query)]]

\* err.message of the errors axios can throw for a request: the request
\* failed, or the endpoint answered 404
failureMessages(request) ==
    {"Network Error"}
        \cup (IF \E outcome \in UiOutcomes[request.id][request.query] :
                     outcome.status = 404
              THEN {"Request failed with status code 404"}
              ELSE {})

\* RecipeRecommendations is mounted: useState([]), useState(true),
\* useState(null), and the effect of the first render is to run
InitUi ==
    /\ phase = "mounted"
    /\ currentRecipe \in UiRecipes
    /\ recommendations = <<>>
    /\ loading = TRUE
    /\ error = <<>>
    /\ effectPending = TRUE
    /\ requests = <<>>
    /\ PoolIdle
    /\ PairIdle
    /\ ServerIdle

\* the parent renders the component with another currentRecipe; the
\* dependency [currentRecipe] has changed, so the effect will run again
ChangeRecipe(id) ==
    /\ phase = "mounted"
    /\ ~effectPending
    /\ Len(requests) <= MaxChanges
    /\ id # currentRecipe
    /\ currentRecipe' = id
    /\ effectPending' = TRUE
    /\ UNCHANGED <<recommendations, loading, error, requests, phase, engineVars, serverVars>>

\* useEffect: fetchRecommendations() up to its await: setLoading(true),
\* setError(null), and api.getRecipeRecommendations(currentRecipe.id, 6) is
\* sent as GET /recipes/:id/recommendations?limit=6
RunEffect ==
    /\ phase = "mounted"
    /\ effectPending
    /\ loading' = TRUE
    /\ error' = <<>>
    /\ requests' = Append(requests, [id |-> currentRecipe,
                                      query |-> <<numberToString(6)>>,
                                      state |-> "pending"])
    /\ effectPending' = FALSE
    /\ UNCHANGED <<currentRecipe, recommendations, phase, engineVars, serverVars>>

\* the await of request k resumes with a 200 response:
\* setRecommendations(response.recommendations), finally setLoading(false)
Fulfil(k) ==
    /\ phase = "mounted"
    /\ requests[k].state = "pending"
    /\ \E outcome \in UiOutcomes[requests[k].id][requests[k].query] :
           /\ outcome.status = 200
           /\ recommendations' = outcome.recommendations
           /\ requests' = [requests EXCEPT ![k] = [id |-> @.id, query |-> @.query,
                                                    state |-> "fulfilled",
                                                    recommendations |-> outcome.recommendations]]
    /\ loading' = FALSE
    /\ UNCHANGED <<currentRecipe, error, effectPending, phase, engineVars, serverVars>>

\* the await of request k throws (404 from the endpoint, or the request
\* failed): catch setError(err.message), finally setLoading(false)
Reject(k) ==
    /\ phase = "mounted"
    /\ requests[k].state = "pending"
    /\ \E message \in failureMessages(requests[k]) :
           /\ error' = <<message>>
           /\ requests' = [requests EXCEPT ![k] = [id |-> @.id, query |-> @.query,
                                                    state |-> "rejected",
                                                    message |-> message]]
    /\ loading' = FALSE
    /\ UNCHANGED <<currentRecipe, recommendations, effectPending, phase, engineVars,
                   serverVars>>

NextUi ==
    \/ \E id \in UiRecipes : ChangeRecipe(id)
    \/ RunEffect
    \/ \E k \in 1..Len(requests) : Fulfil(k)
    \/ \E k \in 1..Len(requests) : Reject(k)

Next == GetRecommendations
NextPair == CalculateSimilarity \/ GenerateReasons

NextAll == Next \/ NextPair

Spec == InitPool /\ [][Next]_vars
SpecPair == InitPair /\ [][NextPair]_vars
SpecAll == (InitPool \/ InitPair) /\ [][NextAll]_vars
SpecServer == InitServer /\ [][NextServer]_vars
SpecUi == InitUi /\ [][NextUi]_vars
SpecBoth == (InitPool \/ InitServer) /\ [][Next \/ NextServer]_vars
SpecDouble == InitDouble /\ [][ScoreCandidate]_vars

(***************************************************************************)
(* Properties.                                                             *)
(***************************************************************************)
Limit == maxRecommendations[1]
LimitGiven == Len(maxRecommendations) = 1
ReturnedIds == {returned[i].recipe.id : i \in 1..Len(returned)}
ReturnedRecipes == {returned[i].recipe : i \in 1..Len(returned)}
PoolIndexesWithTargetId == {j \in 1..Len(allRecipes) : allRecipes[j].id = targetRecipe.id}
\* calculateSimilarity of every target and catalog recipe, evaluated once
SimilarityOf == [t \in Targets |-> [c \in Catalog |-> calculateSimilarity(t, c)]]
\* the score of the pool entry at index j
ScoreAt(j) == SimilarityOf[targetRecipe][allRecipes[j]]
\* the pool entries that are not the target and score above 0.1
Qualifying ==
    {j \in 1..Len(allRecipes) :
        /\ allRecipes[j].id # targetRecipe.id
        /\ ScoreAt(j) > Threshold}

\* C1 Exclusion: whatever the pool holds (entries with the target's id
\* included) and whatever the limit, no entry of the list getRecommendations
\* returns has the id of the target.
C1_Exclusion ==
    phase = "returned" => targetRecipe.id \notin ReturnedIds

\* The call has returned a non-empty list from a pool holding two entries
\* with the target's id, one of them with contents other than the target's.
C1_Witness ==
    /\ phase = "returned"
    /\ Len(returned) > 0
    /\ Cardinality(PoolIndexesWithTargetId) >= 2
    /\ \E j \in PoolIndexesWithTargetId : allRecipes[j] # targetRecipe

\* C2 Threshold: every entry of the list getRecommendations returns has a
\* score strictly greater than 0.1, and a pool recipe whose score is exactly
\* 0.1 is not in the list.
C2_Threshold ==
    phase = "returned" =>
        /\ \A i \in 1..Len(returned) : 10 * returned[i].score > Scale
        /\ \A j \in 1..Len(allRecipes) :
               10 * ScoreAt(j) = Scale
                   => allRecipes[j] \notin ReturnedRecipes

\* The call has returned a non-empty list from a pool holding one candidate
\* at exactly 0.1 by tag Jaccard 1/2 alone and one by ingredient Jaccard 1 alone.
C2_Witness ==
    /\ phase = "returned"
    /\ targetRecipe = Tiramisu
    /\ Len(returned) > 0
    /\ LimitGiven /\ Limit >= Len(allRecipes)
    /\ \E j \in 1..Len(allRecipes) : allRecipes[j] = Toast
    /\ \E j \in 1..Len(allRecipes) : allRecipes[j] = Syrup
    /\ calculateSimilarity(Tiramisu, Toast) = Threshold
    /\ calculateSimilarity(Tiramisu, Syrup) = Threshold

\* C3 Ordering: the scores of the list getRecommendations returns are
\* non-increasing from the first entry to the last.
C3_Ordering ==
    phase = "returned" =>
        \A i \in 1..(Len(returned) - 1) : returned[i].score >= returned[i + 1].score

\* The call has returned three entries with three different scores from a
\* pool that held them in increasing order of score.
C3_Witness ==
    /\ phase = "returned"
    /\ Len(returned) = 3
    /\ returned[1].score > returned[2].score
    /\ returned[2].score > returned[3].score
    /\ allRecipes[1] = returned[3].recipe
    /\ allRecipes[3] = returned[1].recipe

\* C4 Truncation: for a limit >= 0 the list getRecommendations returns has
\* at most limit entries.
C4_Truncation ==
    (phase = "returned" /\ LimitGiven /\ Limit >= 0) => Len(returned) <= Limit

\* The call has returned exactly limit >= 1 entries although more candidates
\* qualified.
C4_Witness ==
    /\ phase = "returned"
    /\ LimitGiven /\ Limit >= 1
    /\ Cardinality(Qualifying) > Limit
    /\ Len(returned) = Limit

\* C5 Non-positive limit: with limit = 0 or a negative limit
\* getRecommendations returns the empty list.
C5_NonPositiveLimitEmpty ==
    (phase = "returned" /\ LimitGiven /\ Limit <= 0) => returned = <<>>

\* The lower-cased entries of a list, and the features two recipes share, as
\* mathematical sets.
LowerSet(list) == {toLowerCase(list[i]) : i \in 1..Len(list)}
SharedTags(x, y) == LowerSet(x.tags) \cap LowerSet(y.tags)
AllTags(x, y) == LowerSet(x.tags) \cup LowerSet(y.tags)
SharedIngredients(x, y) == LowerSet(x.ingredients) \cap LowerSet(y.ingredients)
AllIngredients(x, y) == LowerSet(x.ingredients) \cup LowerSet(y.ingredients)
Indicator(b) == IF b THEN 1 ELSE 0
OneIfZero(n) == IF n = 0 THEN 1 ELSE n

\* C6 Bounds: for every pair, empty tag or ingredient lists included,
\* calculateSimilarity returns s with 0 <= s <= 1 (s is held in units of 1/Scale).
C6_Bounds ==
    phase = "scored" => (0 <= similarity /\ similarity <= Scale)

\* calculateSimilarity has returned exactly 1, the upper bound, for a pair
\* with non-empty tag and ingredient lists.
C6_Witness ==
    /\ phase = "scored"
    /\ similarity = Scale
    /\ pairTarget.tags # <<>>
    /\ pairTarget.ingredients # <<>>

\* C7 Score formula: calculateSimilarity(target, candidate) equals
\* 0.40*[cuisines equal] + 0.30*[categories equal] + 0.20*J(tags) +
\* 0.10*J(ingredients), J being |intersection| / |union| of the lower-cased
\* sets and 0 for an empty union.  The equation is multiplied by
\* 10 * |tag union| * |ingredient union| to stay in the integers.
C7_ScoreFormula ==
    phase = "scored" =>
        LET dt == OneIfZero(Cardinality(AllTags(pairTarget, pairCandidate)))
            di == OneIfZero(Cardinality(AllIngredients(pairTarget, pairCandidate)))
            nt == Cardinality(SharedTags(pairTarget, pairCandidate))
            ni == Cardinality(SharedIngredients(pairTarget, pairCandidate))
            c == Indicator(pairTarget.cuisine = pairCandidate.cuisine)
            k == Indicator(pairTarget.category = pairCandidate.category)
        IN  similarity * 10 * dt * di
                = Scale * (4 * c * dt * di + 3 * k * dt * di + 2 * nt * di + 1 * ni * dt)

\* calculateSimilarity has returned 0.80 for the worked example: same cuisine
\* and category, tag Jaccard 1/3 and ingredient Jaccard 1/3.
C7_Witness ==
    /\ phase = "scored"
    /\ pairTarget = Recipe("r1", Italian, Dessert, <<sweet, baked>>, <<flour, sugar>>)
    /\ pairCandidate = Recipe("r2", Italian, Dessert, <<sweet, quick>>, <<flour, butter>>)
    /\ 10 * similarity = 8 * Scale

\* C8 Symmetry: calculateSimilarity(A, B) = calculateSimilarity(B, A).
C8_Symmetry ==
    phase = "scored" => similarity = calculateSimilarity(pairCandidate, pairTarget)

\* calculateSimilarity has returned for a pair whose tag sets overlap in part
\* and differ in size, and whose ingredient sets do too.
C8_Witness ==
    /\ phase = "scored"
    /\ SharedTags(pairTarget, pairCandidate) # {}
    /\ Cardinality(LowerSet(pairTarget.tags)) < Cardinality(LowerSet(pairCandidate.tags))
    /\ SharedIngredients(pairTarget, pairCandidate) # {}
    /\ Cardinality(LowerSet(pairTarget.ingredients))
           > Cardinality(LowerSet(pairCandidate.ingredients))
    /\ pairTarget.cuisine # pairCandidate.cuisine

\* C10 Reason non-emptiness: generateReasons returns at least one reason for
\* every pair, and every entry of a list getRecommendations returns has at
\* least one reason.
C10_ReasonsNonEmpty ==
    /\ phase = "explained" => Len(reasons) >= 1
    /\ phase = "returned" => \A i \in 1..Len(returned) : Len(returned[i].reasons) >= 1

\* generateReasons has returned for a pair that shares no cuisine, category,
\* tag or ingredient.
C10_Witness ==
    /\ phase = "explained"
    /\ pairTarget.cuisine # pairCandidate.cuisine
    /\ pairTarget.category # pairCandidate.category
    /\ SharedTags(pairTarget, pairCandidate) = {}
    /\ SharedIngredients(pairTarget, pairCandidate) = {}
    /\ Len(reasons) = 1

\* The pool entries that qualify, in pool order, as the indexes of allRecipes.
Min(a, b) == IF a < b THEN a ELSE b
CountIn(seq, x) == Cardinality({i \in 1..Len(seq) : seq[i] = x})
ReturnedRecipeSeq == [i \in 1..Len(returned) |-> returned[i].recipe]
QualifyingCopies(recipe) == Cardinality({j \in Qualifying : allRecipes[j] = recipe})

\* C11 Top-k selection: for a limit >= 0, with q the number of non-target
\* pool entries scoring above 0.1, the list has exactly min(limit, q) entries,
\* each of them a qualifying pool entry, and every qualifying entry left out
\* scores no more than every returned entry.
C11_TopK ==
    (phase = "returned" /\ LimitGiven /\ Limit >= 0) =>
        /\ Len(returned) = Min(Limit, Cardinality(Qualifying))
        /\ \A i \in 1..Len(returned) :
               CountIn(ReturnedRecipeSeq, returned[i].recipe)
                   <= QualifyingCopies(returned[i].recipe)
        /\ \A j \in Qualifying :
               CountIn(ReturnedRecipeSeq, allRecipes[j]) < QualifyingCopies(allRecipes[j])
                   => \A i \in 1..Len(returned) : ScoreAt(j) <= returned[i].score

\* The call has returned limit = 2 entries of three qualifying candidates, and
\* the one left out scores strictly less than both and stood first in the pool.
C11_Witness ==
    /\ phase = "returned"
    /\ LimitGiven /\ Limit = 2
    /\ Len(returned) = 2
    /\ Cardinality(Qualifying) = 3
    /\ 1 \in Qualifying
    /\ allRecipes[1] \notin ReturnedRecipes
    /\ ScoreAt(1) < returned[2].score

\* the returned recipes of score s, and the qualifying pool recipes of score s,
\* each in its own order
RECURSIVE RecipesWithScore(_, _)
RecipesWithScore(entries, s) ==
    IF Len(entries) = 0 THEN <<>>
    ELSE LET init == RecipesWithScore(SubSeq(entries, 1, Len(entries) - 1), s)
             last == entries[Len(entries)]
         IN  IF last.score = s THEN Append(init, last.recipe) ELSE init
PoolEntries ==
    [j \in 1..Len(allRecipes) |->
        [recipe |-> allRecipes[j],
         score |-> IF j \in Qualifying THEN ScoreAt(j) ELSE 0]]
IsPrefix(p, q) == Len(p) <= Len(q) /\ p = SubSeq(q, 1, Len(p))

\* C12 Tie stability: result entries with equal scores appear in the relative
\* order their recipes have in the pool (target and below-threshold candidates
\* removed): for every score, the returned recipes of that score are, in order,
\* the first ones of the qualifying pool recipes of that score.
C12_TieStability ==
    phase = "returned" =>
        \A i \in 1..Len(returned) :
            IsPrefix(RecipesWithScore(returned, returned[i].score),
                     RecipesWithScore(PoolEntries, returned[i].score))

\* The call has returned two different recipes with equal scores after a
\* higher-scoring recipe that stood last in the pool.
C12_Witness ==
    /\ phase = "returned"
    /\ Len(returned) = 3
    /\ returned[1].score > returned[2].score
    /\ returned[2].score = returned[3].score
    /\ returned[2].recipe # returned[3].recipe
    /\ allRecipes = <<returned[2].recipe, returned[3].recipe, returned[1].recipe>>

\* C13 Empty outcomes: on an empty pool, a pool holding only the target, or a
\* pool in which no candidate scores above 0.1, getRecommendations returns the
\* empty list (the call completes: the state after it exists).
C13_EmptyOutcomes ==
    (phase = "returned" /\ Qualifying = {}) => returned = <<>>

\* The call has returned from a pool that holds the target itself and a
\* candidate scoring exactly 0.1, and nothing else.
C13_Witness ==
    /\ phase = "returned"
    /\ returned = <<>>
    /\ Len(allRecipes) = 2
    /\ \E j \in 1..2 : allRecipes[j] = targetRecipe
    /\ \E j \in 1..2 : allRecipes[j].id # targetRecipe.id /\ ScoreAt(j) = Threshold

\* The leading piece of each reason, which tells the rule that emitted it.
KindsOf(rs) == [i \in 1..Len(rs) |-> rs[i][1]]
SameCuisineKind == "Same cuisine ("
SameCategoryKind == "Same category ("
SimilarTagsKind == "Similar tags: "
SimilarIngredientsKind == "Similar ingredients: "
FallbackKind == "Similar recipe"
IfThen(b, kind) == IF b THEN <<kind>> ELSE <<>>
\* the rules that apply to a pair, in the order cuisine, category, tags, ingredients
ApplicableKinds(x, y) ==
    IfThen(x.cuisine = y.cuisine, SameCuisineKind)
        \o IfThen(x.category = y.category, SameCategoryKind)
        \o IfThen(SharedTags(x, y) # {}, SimilarTagsKind)
        \o IfThen(SharedIngredients(x, y) # {}, SimilarIngredientsKind)
IsNotFallbackKind(kind) == kind # FallbackKind

\* C14 Reason order and completeness: generateReasons emits one reason for each
\* rule that applies (cuisine equal, category equal, non-empty case-insensitive
\* tag intersection, non-empty case-insensitive ingredient intersection), none
\* for a rule that does not apply, in the order cuisine, category, tags,
\* ingredients.
C14_ReasonOrder ==
    phase = "explained" =>
        SelectSeq(KindsOf(reasons), IsNotFallbackKind)
            = ApplicableKinds(pairTarget, pairCandidate)

\* generateReasons has returned four reasons for a pair to which all four rules
\* apply and whose tag lists differ.
C14_Witness ==
    /\ phase = "explained"
    /\ Len(reasons) = 4
    /\ Len(ApplicableKinds(pairTarget, pairCandidate)) = 4
    /\ pairTarget.tags # pairCandidate.tags

\* The entries of the target's list that the candidate's list also holds,
\* compared in lower case, each once, in the order of the target's list.
Positions(list) == [i \in 1..Len(list) |-> i]
CommonPositions(targetList, candidateList) ==
    LET isCommon(i) ==
            /\ toLowerCase(targetList[i]) \in LowerSet(candidateList)
            /\ \A j \in 1..(i - 1) : toLowerCase(targetList[j]) # toLowerCase(targetList[i])
    IN  SelectSeq(Positions(targetList), isCommon)
FirstCommonLowerCased(targetList, candidateList, cap) ==
    LET at == CommonPositions(targetList, candidateList)
    IN  [k \in 1..Min(cap, Len(at)) |-> toLowerCase(targetList[at[k]])]
FirstCommonAsWritten(targetList, candidateList, cap) ==
    LET at == CommonPositions(targetList, candidateList)
    IN  [k \in 1..Min(cap, Len(at)) |-> targetList[at[k]]]
ReasonsOfKind(kind) == {i \in 1..Len(reasons) : reasons[i][1] = kind}

\* C15 Reason caps: the 'Similar tags' reason lists exactly the first min(3, n)
\* intersecting tags and the 'Similar ingredients' reason the first min(2, m)
\* intersecting ingredients, in the order in which they occur in the target's
\* list, n and m being the sizes of the case-insensitive intersections (the
\* names are compared as the code writes them, in lower case).
C15_ReasonCaps ==
    phase = "explained" =>
        /\ \A i \in ReasonsOfKind(SimilarTagsKind) :
               reasons[i][2]
                   = join(FirstCommonLowerCased(pairTarget.tags, pairCandidate.tags, 3),
                          CommaSpace)
        /\ \A i \in ReasonsOfKind(SimilarIngredientsKind) :
               reasons[i][2]
                   = join(FirstCommonLowerCased(pairTarget.ingredients,
                                                pairCandidate.ingredients, 2),
                          CommaSpace)
        /\ Cardinality(ReasonsOfKind(SimilarTagsKind))
               = Indicator(SharedTags(pairTarget, pairCandidate) # {})
        /\ Cardinality(ReasonsOfKind(SimilarIngredientsKind))
               = Indicator(SharedIngredients(pairTarget, pairCandidate) # {})

\* generateReasons has returned for a pair with four common tags and three
\* common ingredients, which the candidate lists in another order.
C15_Witness ==
    /\ phase = "explained"
    /\ Cardinality(SharedTags(pairTarget, pairCandidate)) = 4
    /\ Cardinality(SharedIngredients(pairTarget, pairCandidate)) = 3
    /\ mapToLowerCase(pairTarget.tags) # mapToLowerCase(pairCandidate.tags)
    /\ ReasonsOfKind(SimilarTagsKind) # {}
    /\ ReasonsOfKind(SimilarIngredientsKind) # {}

\* C16 Casing in reasons: the tags and ingredients named in the 'Similar tags'
\* and 'Similar ingredients' reasons are spelled as the target's entries are
\* written, not in lower case.
C16_OriginalCasing ==
    phase = "explained" =>
        /\ \A i \in ReasonsOfKind(SimilarTagsKind) :
               reasons[i][2]
                   = join(FirstCommonAsWritten(pairTarget.tags, pairCandidate.tags, 3),
                          CommaSpace)
        /\ \A i \in ReasonsOfKind(SimilarIngredientsKind) :
               reasons[i][2]
                   = join(FirstCommonAsWritten(pairTarget.ingredients,
                                               pairCandidate.ingredients, 2),
                          CommaSpace)

NothingShared(x, y) ==
    /\ x.cuisine # y.cuisine
    /\ x.category # y.category
    /\ SharedTags(x, y) = {}
    /\ SharedIngredients(x, y) = {}

\* C17 Fallback reason: generateReasons returns exactly the one-element list
\* ["Similar recipe"] if and only if the cuisines differ, the categories differ
\* and both case-insensitive intersections are empty; the fallback string never
\* appears together with another reason.
C17_Fallback ==
    phase = "explained" =>
        /\ (reasons = <<<<FallbackKind>>>>) <=> NothingShared(pairTarget, pairCandidate)
        /\ ReasonsOfKind(FallbackKind) # {} => Len(reasons) = 1

\* generateReasons has returned the fallback for a pair whose cuisines and
\* categories differ only in letter case and whose lists are non-empty.
C17_Witness ==
    /\ phase = "explained"
    /\ reasons = <<<<FallbackKind>>>>
    /\ pairTarget.cuisine = Italian /\ pairCandidate.cuisine = italian
    /\ pairTarget.category = Dessert /\ pairCandidate.category = dessert
    /\ pairTarget.tags # <<>> /\ pairCandidate.tags # <<>>
    /\ pairTarget.ingredients # <<>> /\ pairCandidate.ingredients # <<>>

\* A change of letter case: one entry of a list, or all of them, in upper
\* case, or all of them in lower case.
UpperOf == [c \in {LowerCase[i] : i \in 1..Len(LowerCase)} |->
               UpperCase[CHOOSE i \in 1..Len(LowerCase) : LowerCase[i] = c]]
LowerLetters == DOMAIN UpperOf
UpperCased(s) == [i \in 1..Len(s) |-> IF s[i] \in LowerLetters THEN UpperOf[s[i]] ELSE s[i]]
LowerCased(s) == [i \in 1..Len(s) |-> IF s[i] \in UpperLetters THEN LowerOf[s[i]] ELSE s[i]]
CaseChanges(list) ==
    {[list EXCEPT ![i] = UpperCased(list[i])] : i \in 1..Len(list)}
        \cup {[i \in 1..Len(list) |-> UpperCased(list[i])],
              [i \in 1..Len(list) |-> LowerCased(list[i])]}
CaseVariants(recipe) ==
    {[recipe EXCEPT !.tags = l] : l \in CaseChanges(recipe.tags)}
        \cup {[recipe EXCEPT !.ingredients = l] : l \in CaseChanges(recipe.ingredients)}
IsOverlapKind(kind) == kind \in {SimilarTagsKind, SimilarIngredientsKind}
OverlapKinds(rs) == SelectSeq(KindsOf(rs), IsOverlapKind)

\* C18 Case-insensitive overlap: changing the letter case of any tag or
\* ingredient of either recipe leaves calculateSimilarity unchanged and leaves
\* unchanged which of the 'Similar tags' / 'Similar ingredients' reasons are
\* emitted.
C18_CaseInsensitive ==
    /\ phase = "scored" =>
           /\ \A t \in CaseVariants(pairTarget) :
                  calculateSimilarity(t, pairCandidate) = similarity
           /\ \A c \in CaseVariants(pairCandidate) :
                  calculateSimilarity(pairTarget, c) = similarity
    /\ phase = "explained" =>
           /\ \A t \in CaseVariants(pairTarget) :
                  OverlapKinds(generateReasons(t, pairCandidate)) = OverlapKinds(reasons)
           /\ \A c \in CaseVariants(pairCandidate) :
                  OverlapKinds(generateReasons(pairTarget, c)) = OverlapKinds(reasons)

\* calculateSimilarity has returned for a pair whose tags and ingredients
\* overlap in part and whose target has an entry that a change of case alters.
C18_Witness ==
    /\ phase = "scored"
    /\ SharedTags(pairTarget, pairCandidate) # {}
    /\ SharedTags(pairTarget, pairCandidate) # AllTags(pairTarget, pairCandidate)
    /\ SharedIngredients(pairTarget, pairCandidate) # {}
    /\ \E t \in CaseVariants(pairTarget) : t.tags # pairTarget.tags
    /\ similarity > 0

DiffersOnlyInCase(a, b) == a # b /\ LowerCased(a) = LowerCased(b)
\* similarity = 0.4*c + 0.3*k + 0.2*nt/dt + 0.1*ni/di, multiplied out
ScoreIs(c, k, nt, dt, ni, di) ==
    similarity * 10 * dt * di
        = Scale * (4 * c * dt * di + 3 * k * dt * di + 2 * nt * di + 1 * ni * dt)
TagRatioIs(nt, dt) ==
    ScoreIs(Indicator(pairTarget.cuisine = pairCandidate.cuisine),
            Indicator(pairTarget.category = pairCandidate.category),
            nt, dt,
            Cardinality(SharedIngredients(pairTarget, pairCandidate)),
            OneIfZero(Cardinality(AllIngredients(pairTarget, pairCandidate))))
IngredientRatioIs(ni, di) ==
    ScoreIs(Indicator(pairTarget.cuisine = pairCandidate.cuisine),
            Indicator(pairTarget.category = pairCandidate.category),
            Cardinality(SharedTags(pairTarget, pairCandidate)),
            OneIfZero(Cardinality(AllTags(pairTarget, pairCandidate))),
            ni, di)
CuisineAndCategoryAre(c, k) ==
    ScoreIs(c, k,
            Cardinality(SharedTags(pairTarget, pairCandidate)),
            OneIfZero(Cardinality(AllTags(pairTarget, pairCandidate))),
            Cardinality(SharedIngredients(pairTarget, pairCandidate)),
            OneIfZero(Cardinality(AllIngredients(pairTarget, pairCandidate))))

\* C19 Case-sensitive cuisine and category: when the cuisines of a pair differ
\* only in letter case the cuisine factor contributes 0 to the score and no
\* 'Same cuisine' reason is emitted; likewise for the category, its 0.30 factor
\* and the 'Same category' reason.
C19_CaseSensitive ==
    /\ (phase = "scored" /\ DiffersOnlyInCase(pairTarget.cuisine, pairCandidate.cuisine))
           => CuisineAndCategoryAre(0, Indicator(pairTarget.category = pairCandidate.category))
    /\ (phase = "scored" /\ DiffersOnlyInCase(pairTarget.category, pairCandidate.category))
           => CuisineAndCategoryAre(Indicator(pairTarget.cuisine = pairCandidate.cuisine), 0)
    /\ (phase = "explained" /\ DiffersOnlyInCase(pairTarget.cuisine, pairCandidate.cuisine))
           => ReasonsOfKind(SameCuisineKind) = {}
    /\ (phase = "explained" /\ DiffersOnlyInCase(pairTarget.category, pairCandidate.category))
           => ReasonsOfKind(SameCategoryKind) = {}

\* calculateSimilarity has returned for a pair whose cuisines differ only in
\* case and whose categories differ only in case, with overlapping tags.
C19_Witness ==
    /\ phase = "scored"
    /\ DiffersOnlyInCase(pairTarget.cuisine, pairCandidate.cuisine)
    /\ DiffersOnlyInCase(pairTarget.category, pairCandidate.category)
    /\ SharedTags(pairTarget, pairCandidate) # {}
    /\ similarity = TagWeight

\* C20 Empty-list guard: when the tag list of the target, of the candidate or of
\* both is empty the tag factor contributes exactly 0 to the score, likewise
\* the ingredient factor for the ingredient lists, and calculateSimilarity
\* returns a number (the division is never by zero).
C20_EmptyListGuard ==
    /\ (phase = "scored" /\ (pairTarget.tags = <<>> \/ pairCandidate.tags = <<>>))
           => TagRatioIs(0, 1)
    /\ (phase = "scored" /\ (pairTarget.ingredients = <<>> \/ pairCandidate.ingredients = <<>>))
           => IngredientRatioIs(0, 1)

\* calculateSimilarity has returned for a pair of which only the target has
\* tags and only the candidate has ingredients.
C20_Witness ==
    /\ phase = "scored"
    /\ pairTarget.tags # <<>> /\ pairCandidate.tags = <<>>
    /\ pairTarget.ingredients = <<>> /\ pairCandidate.ingredients # <<>>
    /\ similarity = CuisineWeight

\* a pair that matches in full: equal cuisines, equal categories, and equal
\* lower-cased tag sets and ingredient sets
FullMatch(x, y) ==
    /\ x.cuisine = y.cuisine
    /\ x.category = y.category
    /\ LowerSet(x.tags) = LowerSet(y.tags)
    /\ LowerSet(x.ingredients) = LowerSet(y.ingredients)

\* C21 Maximum score, as claimed: for every pair whose cuisine, category, tag
\* set and ingredient set all match, pairs with empty tag or ingredient lists
\* included, calculateSimilarity returns 1.
C21_MaxScore ==
    (phase = "scored" /\ FullMatch(pairTarget, pairCandidate)) => similarity = Scale

\* C21 Maximum score, amended: for every pair whose cuisine, category, tag set
\* and ingredient set all match and whose tag set and ingredient set are not
\* empty, calculateSimilarity returns the sum of the four weights, which is 1;
\* an empty tag set takes 0.2 off that sum and an empty ingredient set 0.1.
C21_MaxScoreNonEmpty ==
    (phase = "scored" /\ FullMatch(pairTarget, pairCandidate)) =>
        similarity = CuisineWeight + CategoryWeight
                         + Indicator(pairTarget.tags # <<>>) * TagWeight
                         + Indicator(pairTarget.ingredients # <<>>) * IngredientWeight

\* calculateSimilarity has returned 1 for a pair whose tag lists and ingredient
\* lists hold the same names in another order and another letter case.
C21_Witness ==
    /\ phase = "scored"
    /\ FullMatch(pairTarget, pairCandidate)
    /\ mapToLowerCase(pairTarget.tags) # mapToLowerCase(pairCandidate.tags)
    /\ pairTarget.ingredients # pairCandidate.ingredients
    /\ pairTarget.ingredients # <<>>
    /\ similarity = CuisineWeight + CategoryWeight + TagWeight + IngredientWeight
    /\ similarity = Scale

\* the processed candidates of the request that the inline filter keeps
ServerQualifying ==
    {j \in 1..Len(serverCandidates) :
        keepInline(scoreInline(processedTarget, serverCandidates[j]))}
Responded == phase = "responded" /\ resStatus = 200

\* C22 Default limit: without a limit argument getRecommendations returns what
\* it returns with limit = 6, and the endpoint without a limit query parameter
\* responds what it responds to limit=6; neither list has more than 6 entries.
C22_DefaultLimit ==
    /\ (phase = "returned" /\ ~LimitGiven) =>
           /\ returned = getRecommendations(targetRecipe, allRecipes, <<6>>)
           /\ Len(returned) <= 6
    /\ (Responded /\ reqQueryLimit = <<>>) =>
           /\ resRecommendations
                  = recommendationsInline(processedTarget, serverCandidates,
                                          <<"string", <<"6">>>>)
           /\ Len(resRecommendations) <= 6

\* getRecommendations has returned six entries, without a limit argument,
\* from a pool with eight qualifying candidates.
C22_Witness ==
    /\ phase = "returned"
    /\ ~LimitGiven
    /\ Cardinality(Qualifying) = 8
    /\ Len(returned) = 6

\* The endpoint has responded six recommendations to a request without limit
\* while seven rows qualified.
C22_ServerCase ==
    /\ Responded
    /\ reqQueryLimit = <<>>
    /\ Cardinality(ServerQualifying) = 7
    /\ Len(resRecommendations) = 6

\* the pool entries that are not the target, have its category and another
\* cuisine, and share no tag and no ingredient with it
CategoryOnly ==
    {j \in 1..Len(allRecipes) :
        /\ allRecipes[j].id # targetRecipe.id
        /\ allRecipes[j].category = targetRecipe.category
        /\ allRecipes[j].cuisine # targetRecipe.cuisine
        /\ SharedTags(targetRecipe, allRecipes[j]) = {}
        /\ SharedIngredients(targetRecipe, allRecipes[j]) = {}}
\* the limit in force: the argument, or 6 when it is omitted
EffectiveLimit == IF LimitGiven THEN Limit ELSE 6
HigherScoring(j) == {i \in Qualifying : ScoreAt(i) > ScoreAt(j)}
\* the qualifying entries the stable sort puts before entry j
RankedBefore(j) ==
    {i \in Qualifying : ScoreAt(i) > ScoreAt(j) \/ (ScoreAt(i) = ScoreAt(j) /\ i < j)}
CategoryOnlyScoreAndReasons ==
    \A j \in CategoryOnly :
        /\ 10 * ScoreAt(j) = 3 * Scale
        /\ \A i \in 1..Len(returned) :
               returned[i].recipe = allRecipes[j] =>
                   /\ 10 * returned[i].score = 3 * Scale
                   /\ returned[i].reasons
                          = << <<"Same category (", targetRecipe.category, ")">> >>

\* C23 Category-only match, as claimed: a candidate with the target's category,
\* another cuisine and no common tag or ingredient scores 0.30, has the reasons
\* ["Same category (<category>)"], and is in the result whenever the limit
\* exceeds the number of candidates that score higher.
C23_CategoryOnly ==
    phase = "returned" =>
        /\ CategoryOnlyScoreAndReasons
        /\ \A j \in CategoryOnly :
               EffectiveLimit > Cardinality(HigherScoring(j))
                   => allRecipes[j] \in ReturnedRecipes

\* C23 Category-only match, amended: such a candidate scores 0.30, has the
\* reasons ["Same category (<category>)"], and is in the result whenever the
\* limit exceeds the number of candidates that score higher or score the same
\* and stand before it in the pool.
C23_CategoryOnlyRanked ==
    phase = "returned" =>
        /\ CategoryOnlyScoreAndReasons
        /\ \A j \in CategoryOnly :
               EffectiveLimit > Cardinality(RankedBefore(j))
                   => \E i \in 1..Len(returned) :
                          /\ returned[i].recipe = allRecipes[j]
                          /\ i = Cardinality(RankedBefore(j)) + 1

\* The call has returned, with limit 2, a category-only candidate in second
\* place, after a higher-scoring one that stood behind it in the pool, and
\* has left out another category-only candidate.
C23_Witness ==
    /\ phase = "returned"
    /\ LimitGiven /\ Limit = 2
    /\ Len(returned) = 2
    /\ 1 \in CategoryOnly
    /\ returned[2].recipe = allRecipes[1]
    /\ returned[2].reasons = << <<"Same category (", Dessert, ")">> >>
    /\ \E j \in CategoryOnly : allRecipes[j] \notin ReturnedRecipes

\* C24 No shared feature: a pool entry that shares no cuisine, no category, no
\* tag and no ingredient with the target scores 0 and is not in the list
\* getRecommendations returns, whatever the limit.
C24_NothingShared ==
    phase = "returned" =>
        \A j \in 1..Len(allRecipes) :
            NothingShared(targetRecipe, allRecipes[j]) =>
                /\ ScoreAt(j) = 0
                /\ allRecipes[j] \notin ReturnedRecipes

\* The call has returned a non-empty list, with the limit at the length of
\* the pool, from a pool that holds a recipe sharing nothing with the target.
C24_Witness ==
    /\ phase = "returned"
    /\ LimitGiven /\ Limit = Len(allRecipes)
    /\ Len(returned) = Len(allRecipes) - 1
    /\ Len(returned) >= 1
    /\ \E j \in 1..Len(allRecipes) :
           /\ allRecipes[j].id # targetRecipe.id
           /\ NothingShared(targetRecipe, allRecipes[j])

\* generateReasons of every target and catalog recipe, evaluated once
ReasonsOf == [t \in Targets |-> [c \in Catalog |-> generateReasons(t, c)]]

\* C25 Reasons do not depend on the score: every entry of the list
\* getRecommendations returns carries generateReasons(target, recipe) as its
\* reasons and calculateSimilarity(target, recipe) as its score, whatever the
\* limit and the other entries of the pool are.
C25_ReasonsOfPair ==
    phase = "returned" =>
        \A i \in 1..Len(returned) :
            /\ returned[i].reasons = ReasonsOf[targetRecipe][returned[i].recipe]
            /\ returned[i].score = SimilarityOf[targetRecipe][returned[i].recipe]

\* The call has returned three entries of three different scores, one of
\* them a recipe for which generateReasons gives another list when its two
\* arguments are exchanged.
C25_Witness ==
    /\ phase = "returned"
    /\ Len(returned) = 3
    /\ returned[1].score > returned[2].score
    /\ returned[2].score > returned[3].score
    /\ \E i \in 1..3 :
           /\ returned[i].recipe.tags # <<>>
           /\ generateReasons(targetRecipe, returned[i].recipe)
                  # generateReasons(returned[i].recipe, targetRecipe)

\* C26 Inputs are left unchanged: a call of getRecommendations leaves the
\* target recipe and the caller's pool array (its recipes, their order and its
\* length) as they were: filter, sort and slice work on arrays of the call.
C26_InputsUnchanged ==
    [][phase = "called" => (allRecipes' = allRecipes /\ targetRecipe' = targetRecipe)]_vars

\* The call has returned from a pool that holds an entry with the target's id
\* first and two candidates in increasing order of score: the entry was
\* filtered out, the candidates were sorted the other way round, and the
\* limit cut the list to one entry.
C26_Witness ==
    /\ phase = "returned"
    /\ Len(allRecipes) = 3
    /\ allRecipes[1].id = targetRecipe.id
    /\ {2, 3} \subseteq Qualifying
    /\ ScoreAt(2) < ScoreAt(3)
    /\ LimitGiven /\ Limit = 1
    /\ returned[1].recipe = allRecipes[3]

HasFallback(rs) == \E k \in 1..Len(rs) : rs[k][1] = FallbackKind

\* C27 The fallback reason is unreachable in results: no entry of the list
\* getRecommendations returns, and no entry of the recommendations the
\* endpoint responds, has the reason "Similar recipe".
C27_NoFallbackInResults ==
    /\ phase = "returned" => \A i \in 1..Len(returned) : ~HasFallback(returned[i].reasons)
    /\ Responded =>
           \A i \in 1..Len(resRecommendations) : ~HasFallback(resRecommendations[i].reasons)

\* The endpoint has responded a non-empty list, with room left under the
\* limit, from a table with a row whose reasons are the fallback.
C27_Witness ==
    /\ Responded
    /\ Len(resRecommendations) >= 1
    /\ reqQueryLimit = <<>>
    /\ Len(resRecommendations) < DefaultLimit
    /\ \E j \in 1..Len(serverCandidates) :
           HasFallback(scoreInline(processedTarget, serverCandidates[j]).reasons)

\* getRecommendations has returned a non-empty list, with room left under
\* the limit, from a pool with a recipe whose reasons are the fallback.
C27_EngineCase ==
    /\ phase = "returned"
    /\ Len(returned) >= 1
    /\ ~LimitGiven
    /\ \E j \in 1..Len(allRecipes) :
           /\ allRecipes[j].id # targetRecipe.id
           /\ HasFallback(ReasonsOf[targetRecipe][allRecipes[j]])

\* the limits n >= 1 whose decimal string is the limit parameter of the request
RequestedLimits ==
    {n \in 1..(DefaultLimit + MaxLimit) : reqQueryLimit = <<numberToString(n)>>}

\* C29 The endpoint and the engine agree: for a limit n >= 1 the list the
\* endpoint computes inline from the processed target and the processed other
\* rows is, entry by entry (recipe, score, reasons), the list
\* getRecommendations returns for that target, those rows as pool, and n.
C29_EndpointAgrees ==
    Responded =>
        \A n \in RequestedLimits :
            resRecommendations = getRecommendations(processedTarget, serverCandidates, <<n>>)

\* The endpoint has responded to limit=2 with two recommendations of
\* different scores, the first with four reasons, three tags among them,
\* while more rows qualified.
C29_Witness ==
    /\ Responded
    /\ RequestedLimits = {2}
    /\ Len(resRecommendations) = 2
    /\ Cardinality(ServerQualifying) > 2
    /\ resRecommendations[1].score > resRecommendations[2].score
    /\ Len(resRecommendations[1].reasons) = 4
    /\ resRecommendations[1].reasons[3]
           = <<"Similar tags: ", sweet \o CommaSpace \o baked \o CommaSpace \o quick>>

\* every request of the component has settled and no effect is left to run,
\* after the currentRecipe prop changed at least once
AllSettled ==
    /\ phase = "mounted"
    /\ ~effectPending
    /\ Len(requests) >= 2
    /\ \A k \in 1..Len(requests) : requests[k].state # "pending"
LastRequest == requests[Len(requests)]

OverlapOnly ==
    /\ phase = "tested"
    /\ pairTarget.cuisine # pairCandidate.cuisine
    /\ pairTarget.category # pairCandidate.category
TagsShared == Cardinality(SharedTags(pairTarget, pairCandidate))
TagsInAll == Cardinality(AllTags(pairTarget, pairCandidate))
IngredientsShared == Cardinality(SharedIngredients(pairTarget, pairCandidate))
IngredientsInAll == Cardinality(AllIngredients(pairTarget, pairCandidate))
\* 0.20 * J(tags) + 0.10 * J(ingredients) > 0.1 in exact arithmetic, that is
\* 2 * J(tags) + J(ingredients) > 1, a ratio over an empty union counting 0
OverlapExceedsThreshold ==
    2 * TagsShared * OneIfZero(IngredientsInAll) + IngredientsShared * OneIfZero(TagsInAll)
        > OneIfZero(TagsInAll) * OneIfZero(IngredientsInAll)

\* C28 Overlap alone: a candidate that differs from the target in both
\* cuisine and category is pushed to the recommendations only if
\* 0.20 * J(tags) + 0.10 * J(ingredients) > 0.1; in particular never when it
\* has no tag in common with the target, and, when it has no ingredient in
\* common, only when the tag Jaccard ratio is greater than 1/2.
C28_OverlapAlone ==
    (OverlapOnly /\ pushed) =>
        /\ OverlapExceedsThreshold
        /\ TagsShared > 0
        /\ (IngredientsShared = 0 => 2 * TagsShared > TagsInAll)

====
